---- MODULE Spec2Model ----
(***************************************************************************)
(* Model of the command-line contact book of src/task_1.py: the field      *)
(* validators (Phone, Birthday, Name), Record, AddressBook and the command *)
(* loop with its input_error wrapper.                                      *)
(*                                                                         *)
(* A Python str is a sequence of one-character strings.  The character     *)
(* "U+0663" stands for the single code point ARABIC-INDIC DIGIT THREE,     *)
(* which Python's \d and int() accept as a decimal digit.                  *)
(***************************************************************************)
EXTENDS Integers, Sequences, FiniteSets, TLC

VARIABLES rec, book, pc, line, out

vars == <<rec, book, pc, line, out>>

(***************************************************************************)
(* Characters and the str methods the program uses.                        *)
(***************************************************************************)
AsciiDigits == {"0", "1", "2", "3", "4", "5", "6", "7", "8", "9"}

\* str.strip() and str.split() with no argument work on Unicode whitespace
Whitespace == {" ", "\t", "\n"}

\* the class \d of a str pattern: every Unicode decimal digit
IsDigit(c) == c \in AsciiDigits \/ c = "U+0663"

\* int() of one decimal digit
DigitValue(c) ==
    CASE c = "0" -> 0 [] c = "1" -> 1 [] c = "2" -> 2 [] c = "3" -> 3
      [] c = "4" -> 4 [] c = "5" -> 5 [] c = "6" -> 6 [] c = "7" -> 7
      [] c = "8" -> 8 [] c = "9" -> 9 [] c = "U+0663" -> 3

Letters == <<"a", "b", "c", "d", "e", "h", "i", "l", "o", "s", "t", "x">>

Capitals == <<"A", "B", "C", "D", "E", "H", "I", "L", "O", "S", "T", "X">>

\* the lower-case and upper-case forms of one character; a character that is
\* no letter is its own
ToLower(c) == IF \E i \in 1..Len(Capitals) : Capitals[i] = c
              THEN Letters[CHOOSE i \in 1..Len(Capitals) : Capitals[i] = c]
              ELSE c

ToUpper(c) == IF \E i \in 1..Len(Letters) : Letters[i] = c
              THEN Capitals[CHOOSE i \in 1..Len(Letters) : Letters[i] = c]
              ELSE c

\* str.lower()
RECURSIVE lower(_)
lower(s) == IF s = <<>> THEN <<>> ELSE <<ToLower(Head(s))>> \o lower(Tail(s))

\* str.capitalize(): first character upper-cased, all the others lower-cased
capitalize(s) == IF s = <<>> THEN <<>> ELSE <<ToUpper(Head(s))>> \o lower(Tail(s))

RECURSIVE lstrip(_)
lstrip(s) == IF s # <<>> /\ Head(s) \in Whitespace THEN lstrip(Tail(s)) ELSE s

RECURSIVE rstrip(_)
rstrip(s) == IF s # <<>> /\ s[Len(s)] \in Whitespace
             THEN rstrip(SubSeq(s, 1, Len(s) - 1))
             ELSE s

\* str.strip()
strip(s) == rstrip(lstrip(s))

\* str.split(): the maximal runs of non-whitespace characters, in order
RECURSIVE splitFrom(_, _, _)
splitFrom(s, cur, acc) ==
    IF s = <<>>
    THEN IF cur = <<>> THEN acc ELSE Append(acc, cur)
    ELSE IF Head(s) \in Whitespace
         THEN splitFrom(Tail(s), <<>>, IF cur = <<>> THEN acc ELSE Append(acc, cur))
         ELSE splitFrom(Tail(s), Append(cur, Head(s)), acc)

split(s) == splitFrom(s, <<>>, <<>>)

\* "sep".join(parts)
RECURSIVE join(_, _)
join(sep, parts) ==
    IF parts = <<>> THEN <<>>
    ELSE IF Len(parts) = 1 THEN parts[1]
    ELSE parts[1] \o sep \o join(sep, Tail(parts))

(***************************************************************************)
(* Pattern matching.  Without re.MULTILINE, "$" matches at the end of the  *)
(* string and also just before a newline that ends the string.             *)
(***************************************************************************)
AtDollar(s, n) == Len(s) = n \/ (Len(s) = n + 1 /\ s[n + 1] = "\n")

PhoneLen == 10

\* Phone.__validate_phone: re.compile(r"^\d{10}$").match(value)
validate_phone(value) ==
    /\ Len(value) >= PhoneLen
    /\ \A i \in 1..PhoneLen : IsDigit(value[i])
    /\ AtDollar(value, PhoneLen)

\* (0[1-9]|[12][0-9]|3[01]) on the characters a, b
DayPattern(a, b) ==
    \/ a = "0" /\ b \in AsciiDigits \ {"0"}
    \/ a \in {"1", "2"} /\ b \in AsciiDigits
    \/ a = "3" /\ b \in {"0", "1"}

\* (0[1-9]|1[0-2]) on the characters a, b
MonthPattern(a, b) ==
    \/ a = "0" /\ b \in AsciiDigits \ {"0"}
    \/ a = "1" /\ b \in {"0", "1", "2"}

\* validate_date as it would be had the pattern been matched against value
\* itself, not value.strip()
validate_date_unstripped(value) ==
    /\ Len(value) >= 10
    /\ DayPattern(value[1], value[2])
    /\ value[3] = "."
    /\ MonthPattern(value[4], value[5])
    /\ value[6] = "."
    /\ \A i \in 7..10 : IsDigit(value[i])
    /\ AtDollar(value, 10)

\* Birthday.__validate_date: the pattern matched against value.strip()
validate_date(value) ==
    LET t == strip(value) IN
    /\ Len(t) >= 10
    /\ DayPattern(t[1], t[2])
    /\ t[3] = "."
    /\ MonthPattern(t[4], t[5])
    /\ t[6] = "."
    /\ \A i \in 7..10 : IsDigit(t[i])
    /\ AtDollar(t, 10)

(***************************************************************************)
(* datetime.date: a record [year, month, day] of the proleptic Gregorian   *)
(* calendar, years 1..9999.                                                *)
(***************************************************************************)
IsLeap(y) == y % 4 = 0 /\ (y % 100 # 0 \/ y % 400 = 0)

DaysInMonth(y, m) ==
    IF m = 2 THEN (IF IsLeap(y) THEN 29 ELSE 28)
    ELSE IF m \in {4, 6, 9, 11} THEN 30 ELSE 31

DaysBeforeYear(y) ==
    (y - 1) * 365 + ((y - 1) \div 4) - ((y - 1) \div 100) + ((y - 1) \div 400)

RECURSIVE DaysBeforeMonth(_, _)
DaysBeforeMonth(y, m) ==
    IF m = 1 THEN 0 ELSE DaysBeforeMonth(y, m - 1) + DaysInMonth(y, m - 1)

\* date.toordinal(): 0001-01-01 is day 1
toordinal(d) == DaysBeforeYear(d.year) + DaysBeforeMonth(d.year, d.month) + d.day

\* date.isoweekday(): Monday is 1, Sunday is 7 (0001-01-01 is a Monday)
isoweekday(d) == ((toordinal(d) + 6) % 7) + 1

\* the date(year, month, day) constructor's range check
ValidDate(y, m, d) ==
    /\ y \in 1..9999
    /\ m \in 1..12
    /\ d >= 1 /\ d <= DaysInMonth(y, m)

NoDate == [year |-> 0, month |-> 0, day |-> 0]

\* a call's outcome: exc = "" and the value returned, or the exception raised
Ok(v) == [exc |-> "", value |-> v]

Raise(kind, v) == [exc |-> kind, value |-> v]

\* date.replace(year=y): builds date(y, month, day); ValueError when there is
\* no such day
replace_year(d, y) ==
    IF ValidDate(y, d.month, d.day)
    THEN Ok([year |-> y, month |-> d.month, day |-> d.day])
    ELSE Raise("ValueError", NoDate)

NextDay(d) ==
    IF d.day < DaysInMonth(d.year, d.month) THEN [d EXCEPT !.day = d.day + 1]
    ELSE IF d.month < 12 THEN [d EXCEPT !.month = d.month + 1, !.day = 1]
    ELSE [year |-> d.year + 1, month |-> 1, day |-> 1]

\* date + timedelta(days=n), n >= 0
RECURSIVE AddDays(_, _)
AddDays(d, n) == IF n = 0 THEN d ELSE AddDays(NextDay(d), n - 1)

DigitChar(v) ==
    CASE v = 0 -> "0" [] v = 1 -> "1" [] v = 2 -> "2" [] v = 3 -> "3"
      [] v = 4 -> "4" [] v = 5 -> "5" [] v = 6 -> "6" [] v = 7 -> "7"
      [] v = 8 -> "8" [] v = 9 -> "9"

\* the decimal digits of n, zero-padded to width w
RECURSIVE Padded(_, _)
Padded(n, w) == IF w = 0 THEN <<>> ELSE Padded(n \div 10, w - 1) \o <<DigitChar(n % 10)>>

\* date.strftime("%Y.%m.%d")
strftime_Ymd(d) == Padded(d.year, 4) \o <<".">> \o Padded(d.month, 2) \o <<".">> \o Padded(d.day, 2)

\* date.strftime("%d.%m.%Y")
strftime_dmY(d) == Padded(d.day, 2) \o <<".">> \o Padded(d.month, 2) \o <<".">> \o Padded(d.year, 4)

\* int() of a run of decimal digits
RECURSIVE ToInt(_)
ToInt(s) == IF s = <<>> THEN 0 ELSE 10 * ToInt(SubSeq(s, 1, Len(s) - 1)) + DigitValue(s[Len(s)])

\* datetime.strptime(t, "%d.%m.%Y").date() on a string of the shape
\* DD.MM.YYYY: the fields are read as integers and date() range-checks them;
\* any other shape is a ValueError
strptime(t) ==
    IF /\ Len(t) = 10
       /\ \A i \in {1, 2, 4, 5, 7, 8, 9, 10} : IsDigit(t[i])
       /\ t[3] = "." /\ t[6] = "."
    THEN LET d == ToInt(SubSeq(t, 1, 2))
             m == ToInt(SubSeq(t, 4, 5))
             y == ToInt(SubSeq(t, 7, 10))
         IN IF ValidDate(y, m, d)
            THEN Ok([year |-> y, month |-> m, day |-> d])
            ELSE Raise("ValueError", NoDate)
    ELSE Raise("ValueError", NoDate)

(***************************************************************************)
(* The fields.                                                             *)
(***************************************************************************)
\* Name.__init__: the value is name.strip().capitalize()
Name(name) == capitalize(strip(name))

\* Phone.__init__: the value is the string itself, or PhoneFormatError
Phone(phone) ==
    IF validate_phone(phone) THEN Ok(phone) ELSE Raise("PhoneFormatError", <<>>)

\* Birthday.__init__: the parsed date, DateFormatError when the pattern does
\* not match, and whatever strptime raises
Birthday(value) ==
    IF validate_date(value) THEN strptime(strip(value)) ELSE Raise("DateFormatError", NoDate)

(***************************************************************************)
(* Record: [name, phones, birthday].  None is the empty tuple and a set    *)
(* birthday (or a found index) the one-element tuple holding it.           *)
(***************************************************************************)
None == <<>>

\* Record.__init__
Record(name) == [name |-> Name(name), phones |-> <<>>, birthday |-> None]

\* Record.__get_phone_index: the 0-based index of the first phone whose value
\* is phone_number, or None
get_phone_index(phones, phone_number) ==
    IF \E i \in 1..Len(phones) : phones[i] = phone_number
    THEN <<(CHOOSE i \in 1..Len(phones) :
               /\ phones[i] = phone_number
               /\ \A j \in 1..(i - 1) : phones[j] # phone_number) - 1>>
    ELSE None

\* a method's outcome: the exception raised or the value returned, and the
\* Record as the call leaves it
Outcome(exc, value, r) == [exc |-> exc, value |-> value, rec |-> r]

\* Record.add_phone
add_phone(r, new_phone) ==
    IF get_phone_index(r.phones, new_phone) = None
    THEN LET p == Phone(new_phone) IN
         IF p.exc # ""
         THEN Outcome(p.exc, FALSE, r)
         ELSE Outcome("", TRUE, [r EXCEPT !.phones = Append(@, p.value)])
    ELSE Outcome("", FALSE, r)

\* list.pop(index), index 0-based
pop(l, index) == SubSeq(l, 1, index) \o SubSeq(l, index + 2, Len(l))

\* Record.remove_phone
remove_phone(r, phone_number) ==
    LET index == get_phone_index(r.phones, phone_number) IN
    IF index # None
    THEN Outcome("", TRUE, [r EXCEPT !.phones = pop(@, index[1])])
    ELSE Outcome("", FALSE, r)

\* Record.edit_phone
edit_phone(r, old_number, new_number) ==
    LET index == get_phone_index(r.phones, old_number) IN
    IF index # None
    THEN LET p == Phone(new_number) IN
         IF p.exc # ""
         THEN Outcome(p.exc, FALSE, r)
         ELSE Outcome("", TRUE, [r EXCEPT !.phones[index[1] + 1] = p.value])
    ELSE Outcome("", FALSE, r)

\* the truth value of "index": None and 0 are false
Truthy(index) == index # None /\ index[1] # 0

\* Record.find_phone
find_phone(r, phone_number) ==
    IF Truthy(get_phone_index(r.phones, phone_number)) THEN phone_number ELSE <<>>

\* Record.add_birthday
add_birthday(r, b_date) ==
    LET b == Birthday(b_date) IN
    IF b.exc # ""
    THEN Outcome(b.exc, None, r)
    ELSE Outcome("", None, [r EXCEPT !.birthday = <<b.value>>])

(***************************************************************************)
(* AddressBook: the dict self.data, kept in insertion order, is a sequence *)
(* of [key, rec] entries with distinct keys.                               *)
(***************************************************************************)
HasKey(data, k) == \E i \in 1..Len(data) : data[i].key = k

IndexOfKey(data, k) == CHOOSE i \in 1..Len(data) : data[i].key = k

\* data[k] = v: an existing key keeps its place
dict_set(data, k, v) ==
    IF HasKey(data, k)
    THEN [data EXCEPT ![IndexOfKey(data, k)] = [key |-> k, rec |-> v]]
    ELSE Append(data, [key |-> k, rec |-> v])

\* data.get(k): the value, or None
dict_get(data, k) == IF HasKey(data, k) THEN <<data[IndexOfKey(data, k)].rec>> ELSE None

\* del data[k], for a key that is present
dict_del(data, k) ==
    LET i == IndexOfKey(data, k) IN SubSeq(data, 1, i - 1) \o SubSeq(data, i + 1, Len(data))

\* AddressBook.add_record
add_record(data, record) == dict_set(data, record.name, record)

\* find as it would be had it looked the name up as given
find_raw(data, name) == dict_get(data, name)

\* AddressBook.find
find(data, name) == dict_get(data, capitalize(strip(name)))

\* AddressBook.delete: the value returned and the dict afterwards
delete(data, name) ==
    LET k == capitalize(strip(name)) IN
    IF HasKey(data, k)
    THEN [value |-> TRUE, data |-> dict_del(data, k)]
    ELSE [value |-> FALSE, data |-> data]

\* __check_weekend as it would be had Saturday been moved by one day
check_weekend_saturday_one(date) ==
    CASE isoweekday(date) = 6 -> 1
      [] isoweekday(date) = 7 -> 1
      [] OTHER -> 0

\* AddressBook.__check_weekend
check_weekend(date) ==
    CASE isoweekday(date) = 6 -> 2
      [] isoweekday(date) = 7 -> 1
      [] OTHER -> 0

UpcomingWindow == 7

\* the body of get_upcoming_birthday's loop for one record with a birthday:
\* the entry appended (a one-element list), nothing, or the exception raised
upcoming_entry(record, today_date) ==
    LET this_year == replace_year(record.birthday[1], today_date.year) IN
    IF this_year.exc # "" THEN Raise(this_year.exc, <<>>)
    ELSE LET rolled == IF toordinal(this_year.value) < toordinal(today_date)
                       THEN replace_year(this_year.value, today_date.year + 1)
                       ELSE this_year
         IN IF rolled.exc # "" THEN Raise(rolled.exc, <<>>)
            ELSE LET birthday_this_year == rolled.value
                     days_until_birthday == toordinal(birthday_this_year) - toordinal(today_date)
                 IN IF 0 <= days_until_birthday /\ days_until_birthday < UpcomingWindow
                    THEN Ok(<<[name |-> record.name,
                               congratulation_date |->
                                   strftime_Ymd(AddDays(birthday_this_year,
                                                        check_weekend(birthday_this_year)))]>>)
                    ELSE Ok(<<>>)

\* AddressBook.get_upcoming_birthday over the entries from position i on,
\* congrat_list being the list built so far
RECURSIVE upcoming_from(_, _, _, _)
upcoming_from(data, i, today_date, congrat_list) ==
    IF i > Len(data) THEN Ok(congrat_list)
    ELSE IF data[i].rec.birthday = None
         THEN upcoming_from(data, i + 1, today_date, congrat_list)
         ELSE LET e == upcoming_entry(data[i].rec, today_date) IN
              IF e.exc # "" THEN Raise(e.exc, <<>>)
              ELSE upcoming_from(data, i + 1, today_date, congrat_list \o e.value)

get_upcoming_birthday(data, today_date) == upcoming_from(data, 1, today_date, <<>>)

\* Record.__str__: the pieces of the f-string, in order
Record_str(r) ==
    << "Contact name: ", r.name, ", phones: ", join(<<";", " ">>, r.phones), " Birthday: ",
       IF r.birthday # None THEN strftime_dmY(r.birthday[1]) ELSE "not set" >>

\* AddressBook.__str__: each record's string and a newline
RECURSIVE AddressBook_str(_)
AddressBook_str(data) ==
    IF data = <<>> THEN <<>>
    ELSE <<Record_str(data[1].rec), "\n">> \o AddressBook_str(Tail(data))

(***************************************************************************)
(* The command layer.  A handler's outcome is the exception it raised or   *)
(* the value it returned, and the dict as the call leaves it.  A returned  *)
(* string is the tuple of its pieces: a fixed message is one piece.        *)
(***************************************************************************)
Msg(text) == <<text>>

Handled(exc, value, data) == [exc |-> exc, value |-> value, data |-> data]

\* parse_input: the tokens of the line, the first one lower-cased
parse_input(user_input) ==
    LET tokens == split(user_input) IN
    IF tokens = <<>>
    THEN Raise("ValueError", <<>>)
    ELSE Ok(<<lower(strip(tokens[1]))>> \o Tail(tokens))

\* add_contact as it would be had the Record been stored before its phone
\* was added
add_contact_early(args, data) ==
    IF Len(args) # 2 THEN Handled("ValueError", None, data)
    ELSE LET record == Record(args[1])
             stored == add_record(data, record)
             added == add_phone(record, args[2])
         IN IF added.exc # ""
            THEN Handled(added.exc, None, stored)
            ELSE Handled("", Msg("Contact added."), add_record(data, added.rec))

\* add_contact
add_contact(args, data) ==
    IF Len(args) # 2 THEN Handled("ValueError", None, data)
    ELSE LET record == Record(args[1])
             added == add_phone(record, args[2])
         IN IF added.exc # ""
            THEN Handled(added.exc, None, data)
            ELSE Handled("", Msg("Contact added."), add_record(data, added.rec))

\* change_contact: edit_phone changes the Record held by the dict
change_contact(args, data) ==
    IF Len(args) # 3 THEN Handled("ValueError", None, data)
    ELSE LET record == find(data, capitalize(strip(args[1]))) IN
         IF record = None
         THEN Handled("", Msg("Contact does not exist."), data)
         ELSE LET edited == edit_phone(record[1], args[2], args[3]) IN
              IF edited.exc # ""
              THEN Handled(edited.exc, None, dict_set(data, record[1].name, edited.rec))
              ELSE Handled("",
                           IF edited.value THEN Msg("Contact updated.") ELSE Msg("Old phone number not found"),
                           dict_set(data, record[1].name, edited.rec))

\* show_phone
show_phone(args, data) ==
    IF Len(args) = 0 THEN Handled("IndexError", None, data)
    ELSE LET record == find(data, capitalize(strip(args[1]))) IN
         Handled("", IF record # None THEN Record_str(record[1]) ELSE Msg("Contact not found"), data)

\* show_all
show_all(data) == IF Len(data) = 0 THEN Msg("Contacts not found.") ELSE AddressBook_str(data)

\* the handler add_birthday: Record.add_birthday changes the Record held by
\* the dict
handle_add_birthday(args, data) ==
    IF Len(args) # 2 THEN Handled("ValueError", None, data)
    ELSE LET record == find(data, args[1]) IN
         IF record # None
         THEN LET o == add_birthday(record[1], args[2]) IN
              IF o.exc # ""
              THEN Handled(o.exc, None, dict_set(data, record[1].name, o.rec))
              ELSE Handled("", Msg("Added"), dict_set(data, record[1].name, o.rec))
         ELSE Handled("", Msg("Contact not found"), data)

\* the message input_error prints for ValueError, TypeError and IndexError
UsageMessage(func_name) ==
    CASE func_name = "parse_input" -> "Command can not be blank"
      [] func_name = "add_contact" -> "Usage: add NAME PHONE_NUMBER"
      [] func_name = "change_contact" -> "Usage: change NAME OLD_NUMBER NEW_NUMBER"
      [] func_name = "show_phone" -> "Usage: phone NAME"
      [] func_name = "add_birthday" -> "Usage: add-birthday NAME DATE(DD.MM.YYYY)"
      [] OTHER -> "error in function"

\* input_error as it would be had IndexError been left out of the except
\* clause
input_error_no_index(func_name, o) ==
    IF o.exc = ""
    THEN [value |-> o.value, printed |-> <<>>, caught |-> "", escaped |-> ""]
    ELSE IF o.exc \in {"ValueError", "TypeError"}
    THEN [value |-> None, printed |-> <<UsageMessage(func_name)>>, caught |-> o.exc, escaped |-> ""]
    ELSE IF o.exc = "PhoneFormatError"
    THEN [value |-> None, printed |-> <<"Wrong phone format.">>, caught |-> o.exc, escaped |-> ""]
    ELSE IF o.exc = "DateFormatError"
    THEN [value |-> None, printed |-> <<"Invalid date format. Use DD.MM.YYYY">>,
          caught |-> o.exc, escaped |-> ""]
    ELSE [value |-> None, printed |-> <<>>, caught |-> "", escaped |-> o.exc]

\* input_error's inner: what the wrapped call returns (None after an exception
\* it caught), what it printed, the exception it caught and the one it let
\* through
input_error(func_name, o) ==
    IF o.exc = ""
    THEN [value |-> o.value, printed |-> <<>>, caught |-> "", escaped |-> ""]
    ELSE IF o.exc \in {"ValueError", "TypeError", "IndexError"}
    THEN [value |-> None, printed |-> <<UsageMessage(func_name)>>, caught |-> o.exc, escaped |-> ""]
    ELSE IF o.exc = "PhoneFormatError"
    THEN [value |-> None, printed |-> <<"Wrong phone format.">>, caught |-> o.exc, escaped |-> ""]
    ELSE IF o.exc = "DateFormatError"
    THEN [value |-> None, printed |-> <<"Invalid date format. Use DD.MM.YYYY">>,
          caught |-> o.exc, escaped |-> ""]
    ELSE [value |-> None, printed |-> <<>>, caught |-> "", escaped |-> o.exc]

\* "if message := handler(args, book): print(message)": None prints nothing
PrintIfMessage(w) == IF w.value # None THEN Append(w.printed, w.value) ELSE w.printed

\* one pass of main's loop on the line read: the dict, the loop's position,
\* the command and its arguments, what was printed and the exception
\* input_error caught
Iteration(data, position, tokens, printed, caught) ==
    [data |-> data, pc |-> position, tokens |-> tokens, printed |-> printed, caught |-> caught]

\* a wrapped handler's pass: an exception that input_error lets through ends
\* main
AfterHandler(tokens, w, data) ==
    Iteration(data, IF w.escaped # "" THEN "crashed" ELSE "prompt", tokens,
              PrintIfMessage(w), w.caught)

\* the command words main matches on
CLOSE == <<"c", "l", "o", "s", "e">>

EXIT == <<"e", "x", "i", "t">>

HELLO == <<"h", "e", "l", "l", "o">>

ADD == <<"a", "d", "d">>

ALL == <<"a", "l", "l">>

ADD_BIRTHDAY == <<"a", "d", "d", "-", "b", "i", "r", "t", "h", "d", "a", "y">>

CHANGE == <<"c", "h", "a", "n", "g", "e">>

PHONE == <<"p", "h", "o", "n", "e">>

\* the body of main's "while True" for one input line
main_step(data, user_input) ==
    LET parsed == input_error("parse_input", parse_input(user_input)) IN
    IF parsed.escaped # ""
    THEN Iteration(data, "crashed", <<>>, parsed.printed, "")
    ELSE IF parsed.value = None
    THEN Iteration(data, "prompt", <<>>, parsed.printed, parsed.caught)
    ELSE LET command == Head(parsed.value)
             args == Tail(parsed.value)
         IN CASE command \in {CLOSE, EXIT} ->
                   Iteration(data, "done", parsed.value, <<"Good bye!">>, "")
              [] command = HELLO ->
                   Iteration(data, "prompt", parsed.value, <<"How can I help you?">>, "")
              [] command = ADD ->
                   LET h == add_contact(args, data) IN
                   AfterHandler(parsed.value, input_error("add_contact", h), h.data)
              [] command = ALL ->
                   Iteration(data, "prompt", parsed.value, <<show_all(data)>>, "")
              [] command = ADD_BIRTHDAY ->
                   LET h == handle_add_birthday(args, data) IN
                   AfterHandler(parsed.value, input_error("add_birthday", h), h.data)
              [] command = CHANGE ->
                   LET h == change_contact(args, data) IN
                   AfterHandler(parsed.value, input_error("change_contact", h), h.data)
              [] command = PHONE ->
                   LET h == show_phone(args, data) IN
                   AfterHandler(parsed.value, input_error("show_phone", h), h.data)
              [] OTHER ->
                   Iteration(data, "prompt", parsed.value, <<"Invalid command.">>, "")

(***************************************************************************)
(* Input strings.                                                          *)
(***************************************************************************)
RECURSIVE Rep(_, _)
Rep(c, n) == IF n = 0 THEN <<>> ELSE <<c>> \o Rep(c, n - 1)

P1 == Rep("1", PhoneLen)

P2 == Rep("2", PhoneLen)

\* strings a Phone is built from: two plain numbers, a number followed by a
\* newline, a number written with a non-ASCII digit, and malformed ones
PhoneInputs ==
    { P1, P2,
      P1 \o <<"\n">>,
      Rep("2", PhoneLen - 1) \o <<"U+0663">>,
      Rep("1", PhoneLen - 1),
      Rep("1", PhoneLen + 1),
      Rep("1", PhoneLen - 1) \o <<"a">>,
      <<" ">> \o P1 }

\* strings a Birthday is built from: every combination of padding, day,
\* separator, month and year fields below
DateInputs ==
    { pre \o dd \o sep \o mm \o sep \o yy \o post :
        pre \in {<<>>, <<" ">>},
        dd \in {<<"0", "0">>, <<"0", "1">>, <<"2", "9">>, <<"3", "1">>, <<"3", "2">>, <<"7">>},
        sep \in {<<".">>, <<"-">>},
        mm \in {<<"0", "0">>, <<"0", "2">>, <<"0", "4">>, <<"1", "2">>, <<"1", "3">>},
        yy \in {<<"0", "0", "0", "0">>, <<"2", "0", "2", "3">>, <<"2", "0", "2", "4">>,
                <<"2", "0", "2", "U+0663">>, <<"2", "0", "2">>, <<"2", "0", "2", "4", "1">>},
        post \in {<<>>, <<"\n">>, <<" ", "x">>} }

(***************************************************************************)
(* The state.  rec is a Record driven through its own methods; book is the *)
(* AddressBook; pc and line are the command loop's position and the line   *)
(* it read last; out records the last call: the operation, its arguments   *)
(* and what it raised or returned.                                         *)
(***************************************************************************)
Call(op, args, exc, value) == [op |-> op, args |-> args, exc |-> exc, value |-> value]

NoCall == Call("", <<>>, "", <<>>)

\* the longest phone list the Record methods are driven to
MaxPhones == 2

InitRecord ==
    /\ rec = Record(<<"b", "o", "b">>)
    /\ book = <<>>
    /\ pc = "prompt"
    /\ line = <<>>
    /\ out = NoCall

RecAddPhone ==
    \E p \in PhoneInputs :
        \E o \in {add_phone(rec, p)} :
        /\ Len(o.rec.phones) <= MaxPhones
        /\ rec' = o.rec
        /\ out' = Call("add_phone", <<p>>, o.exc, o.value)
        /\ UNCHANGED <<book, pc, line>>

RecRemovePhone ==
    \E p \in PhoneInputs :
        \E o \in {remove_phone(rec, p)} :
        /\ rec' = o.rec
        /\ out' = Call("remove_phone", <<p>>, o.exc, o.value)
        /\ UNCHANGED <<book, pc, line>>

RecEditPhone ==
    \E p \in PhoneInputs, q \in PhoneInputs :
        \E o \in {edit_phone(rec, p, q)} :
        /\ rec' = o.rec
        /\ out' = Call("edit_phone", <<p, q>>, o.exc, o.value)
        /\ UNCHANGED <<book, pc, line>>

RecFindPhone ==
    \E p \in PhoneInputs :
        /\ out' = Call("find_phone", <<p>>, "", find_phone(rec, p))
        /\ UNCHANGED <<rec, book, pc, line>>

NextRecord == RecAddPhone \/ RecRemovePhone \/ RecEditPhone \/ RecFindPhone

SpecRecord == InitRecord /\ [][NextRecord]_vars

\* Birthday construction on every input string: line holds the string
InitBirthday ==
    /\ rec = Record(<<"b", "o", "b">>)
    /\ book = <<>>
    /\ pc = "prompt"
    /\ line \in DateInputs
    /\ out = NoCall

RecAddBirthday ==
    /\ out = NoCall
    /\ \E o \in {add_birthday(rec, line)} :
       /\ rec' = o.rec
       /\ out' = Call("add_birthday", <<line>>, o.exc, o.value)
    /\ UNCHANGED <<book, pc, line>>

NextBirthday == RecAddBirthday

SpecBirthday == InitBirthday /\ [][NextBirthday]_vars

(***************************************************************************)
(* The AddressBook driven through add_record, find, delete and             *)
(* get_upcoming_birthday.                                                  *)
(***************************************************************************)
NameInputs ==
    { <<" ", " ", "a", "l", "i", "c", "e", " ">>,
      <<"A", "L", "I", "C", "E">>,
      <<"A", "l", "i", "c", "e">>,
      <<"b", "o", "b">>,
      <<"B", "O", "b", "\n">> }

\* birthdays of the Records added: a Wednesday, a Saturday and a Sunday of
\* June 2024, 29 February, and 1 January
BirthdayInputs ==
    { <<"1", "2", ".", "0", "6", ".", "1", "9", "9", "0">>,
      <<"1", "5", ".", "0", "6", ".", "1", "9", "8", "5">>,
      <<"1", "6", ".", "0", "6", ".", "2", "0", "0", "1">>,
      <<"2", "9", ".", "0", "2", ".", "2", "0", "0", "0">>,
      <<"0", "1", ".", "0", "1", ".", "1", "9", "8", "0">> }

\* the Records handed to add_record: Record(name), with or without a birthday
RecordInputs ==
    { Record(n) : n \in NameInputs }
      \cup { add_birthday(Record(n), b).rec : n \in NameInputs, b \in BirthdayInputs }

\* datetime.today() is taken from the years 2023..2023 + TodayYearSpan
TodayYearSpan == 1

TodayMonthDays ==
    ({6} \X (9..16)) \cup ({12} \X (28..31)) \cup ({1} \X {1})
      \cup ({2} \X (28..29)) \cup ({3} \X {1})

TodayYears == 2023..(2023 + TodayYearSpan)

\* the values of datetime.today().date() tried: the listed days of each year
Todays ==
    { t \in { [year |-> y, month |-> md[1], day |-> md[2]] :
                y \in TodayYears, md \in TodayMonthDays } :
        ValidDate(t.year, t.month, t.day) }

InitBook ==
    /\ rec = Record(<<"b", "o", "b">>)
    /\ book = <<>>
    /\ pc = "prompt"
    /\ line = <<>>
    /\ out = NoCall

BookAddRecord ==
    \E r \in RecordInputs :
        /\ book' = add_record(book, r)
        /\ out' = Call("add_record", <<r.name>>, "", None)
        /\ UNCHANGED <<rec, pc, line>>

BookFind ==
    \E n \in NameInputs :
        /\ out' = Call("find", <<n>>, "", find(book, n))
        /\ UNCHANGED <<rec, book, pc, line>>

BookDelete ==
    \E n \in NameInputs :
        \E o \in {delete(book, n)} :
        /\ book' = o.data
        /\ out' = Call("delete", <<n>>, "", o.value)
        /\ UNCHANGED <<rec, pc, line>>

BookUpcoming ==
    \E t \in Todays :
        \E o \in {get_upcoming_birthday(book, t)} :
        /\ out' = Call("get_upcoming_birthday", <<t>>, o.exc, o.value)
        /\ UNCHANGED <<rec, book, pc, line>>

NextBook == BookAddRecord \/ BookFind \/ BookDelete \/ BookUpcoming

SpecBook == InitBook /\ [][NextBook]_vars

(***************************************************************************)
(* The command loop, one input line at a time.                             *)
(***************************************************************************)
BOB_LOWER == <<"b", "o", "b">>

BOB_MIXED == <<"B", "o", "B">>

AL_UPPER == <<"A", "L">>

GOOD_DATE == <<"1", "2", ".", "0", "6", ".", "1", "9", "9", "0">>

FEB_31 == <<"3", "1", ".", "0", "2", ".", "2", "0", "2", "4">>

ISO_DATE == <<"1", "9", "9", "0", "-", "0", "6", "-", "1", "2">>

EXIT_UPPER == <<"E", "X", "I", "T">>

CLOSE_MIXED == <<"C", "l", "o", "s", "e">>

HELLO_UPPER == <<"H", "E", "L", "L", "O">>

ADD_UPPER == <<"A", "D", "D">>

DELETE == <<"d", "e", "l", "e", "t", "e">>

EXITS == <<"e", "x", "i", "t", "s">>

CLOSED == <<"c", "l", "o", "s", "e", "d">>

Line(tokens) == join(<<" ">>, tokens)

LoopNames == { BOB_LOWER, BOB_MIXED, AL_UPPER }

BadPhone == Rep("1", PhoneLen - 1)

\* a date the pattern accepts and the calendar does not, and one the pattern
\* rejects
DateArgs == { GOOD_DATE, FEB_31, ISO_DATE }

BlankLines == { <<>>, <<" ", "\t">> }

ExitLines == { CLOSE, EXIT, EXIT_UPPER, <<" ">> \o CLOSE_MIXED \o <<" ">> \o BOB_LOWER }

HelloLines == { HELLO, Line(<<HELLO_UPPER, BOB_LOWER>>) }

AddLines ==
    { Line(<<ADD, n, p>>) : n \in LoopNames, p \in {P1, P2, BadPhone} }
      \cup { Line(<<ADD>>), Line(<<ADD_UPPER, BOB_LOWER>>), Line(<<ADD, BOB_LOWER, P1, P2>>) }

ChangeLines ==
    { Line(<<CHANGE, n, p, r>>) : n \in LoopNames, p \in {P1, P2}, r \in {P1, P2, BadPhone} }
      \cup { Line(<<CHANGE>>), Line(<<CHANGE, BOB_LOWER, P1>>) }

PhoneLines == { Line(<<PHONE, n>>) : n \in LoopNames } \cup { Line(<<PHONE>>) }

AllLines == { ALL, Line(<<ALL, BOB_LOWER>>) }

BirthdayLines ==
    { Line(<<ADD_BIRTHDAY, n, d>>) : n \in LoopNames, d \in DateArgs }
      \cup { Line(<<ADD_BIRTHDAY>>), Line(<<ADD_BIRTHDAY, BOB_LOWER>>) }

\* words main does not know, two of them one letter away from "exit", "close"
UnknownLines == { DELETE, EXITS, Line(<<CLOSED, BOB_LOWER>>) }

Lines ==
    BlankLines \cup ExitLines \cup HelloLines \cup AddLines \cup ChangeLines
      \cup PhoneLines \cup AllLines \cup BirthdayLines \cup UnknownLines

Init ==
    /\ rec = Record(BOB_LOWER)
    /\ book = <<>>
    /\ pc = "prompt"
    /\ line = <<>>
    /\ out = NoCall

\* main reads one line and runs the loop body on it
ReadLine ==
    /\ pc = "prompt"
    /\ \E user_input \in Lines :
         \E it \in {main_step(book, user_input)} :
         /\ line' = user_input
         /\ book' = it.data
         /\ pc' = it.pc
         /\ out' = Call("main", it.tokens, it.caught, it.printed)
    /\ UNCHANGED rec

Next == ReadLine

Spec == Init /\ [][Next]_vars

(***************************************************************************)
(* The properties.                                                         *)
(***************************************************************************)
\* the Record the dict holds under key k
RecordAt(data, k) == data[IndexOfKey(data, k)].rec

InList(l, x) == \E i \in 1..Len(l) : l[i] = x

\* C1: "add NAME PHONE" on a name already in the Store augments the Record
\* held there: the Record under the normalized name holds the new phone and
\* every phone it held before, and a birthday set before is still set.
C1_AddAugmentsRecord ==
    [][ (out'.op = "main" /\ out'.exc = "" /\ Len(out'.args) = 3 /\ out'.args[1] = ADD) =>
          LET k == Name(out'.args[2]) IN
          /\ HasKey(book', k)
          /\ InList(RecordAt(book', k).phones, out'.args[3])
          /\ HasKey(book, k) =>
               /\ \A i \in 1..Len(RecordAt(book, k).phones) :
                      InList(RecordAt(book', k).phones, RecordAt(book, k).phones[i])
               /\ RecordAt(book', k).birthday = RecordAt(book, k).birthday ]_vars

\* C2: whatever add_phone, remove_phone and edit_phone calls were made, no
\* two entries of the Record's phone list have the same value.
C2_NoDuplicatePhones ==
    \A i, j \in 1..Len(rec.phones) : i # j => rec.phones[i] # rec.phones[j]

\* C3: find_phone(number) returns number when some phone of the list has
\* that value, at whatever position, and the empty string otherwise.
C3_FindPhoneAnyPosition ==
    out.op = "find_phone" =>
        out.value = IF InList(rec.phones, out.args[1]) THEN out.args[1] ELSE <<>>

\* a string that, trimmed, reads DD.MM.YYYY with DD in 01-31 and MM in 01-12
MatchesDateFormat(s) ==
    LET t == strip(s) IN
    /\ Len(t) = 10
    /\ t[3] = "." /\ t[6] = "."
    /\ \A i \in {1, 2, 4, 5} : t[i] \in AsciiDigits
    /\ \A i \in 7..10 : IsDigit(t[i])
    /\ ToInt(SubSeq(t, 1, 2)) \in 1..31
    /\ ToInt(SubSeq(t, 4, 5)) \in 1..12

\* the day, month and year such a string names are a day of the calendar
NamesCalendarDay(s) ==
    LET t == strip(s)
        d == ToInt(SubSeq(t, 1, 2))
        m == ToInt(SubSeq(t, 4, 5))
        y == ToInt(SubSeq(t, 7, 10))
    IN /\ y >= 1
       /\ d <= (IF m = 2 THEN (IF y % 4 = 0 /\ (y % 100 # 0 \/ y % 400 = 0) THEN 29 ELSE 28)
                ELSE IF m \in {4, 6, 9, 11} THEN 30 ELSE 31)

\* C4, as stated: Birthday construction succeeds for every string that
\* matches the format, calendar-invalid dates included, and fails with
\* DateFormatError for every other string.
C4_FormatValidSucceeds ==
    out.op = "add_birthday" =>
        IF MatchesDateFormat(out.args[1])
        THEN out.exc = "" /\ rec.birthday # None
        ELSE out.exc = "DateFormatError"

\* C4, amended: Birthday construction succeeds, storing the day named, for
\* every string that matches the format and names a day of the calendar;
\* fails with ValueError for a string that matches the format and names no
\* such day; fails with DateFormatError for every other string; a failed
\* construction sets no birthday.
C4_BirthdayOutcome ==
    out.op = "add_birthday" =>
        LET s == out.args[1] IN
        IF ~MatchesDateFormat(s)
        THEN out.exc = "DateFormatError" /\ rec.birthday = None
        ELSE IF ~NamesCalendarDay(s)
        THEN out.exc = "ValueError" /\ rec.birthday = None
        ELSE /\ out.exc = ""
             /\ rec.birthday # None
             /\ strftime_dmY(rec.birthday[1])
                  = [i \in 1..10 |-> IF strip(s)[i] = "U+0663" THEN "3" ELSE strip(s)[i]]

\* C4's case: 31.02.2024, which the pattern accepts, was given and raised
\* ValueError
C4_Witness ==
    /\ out.op = "add_birthday"
    /\ strip(out.args[1]) = FEB_31
    /\ out.exc = "ValueError"

\* C5: a command that ends in an error input_error translates leaves the
\* Store as it was.
C5_ErrorLeavesStore == [][ (out'.op = "main" /\ out'.exc # "") => book' = book ]_vars

\* C5's case: a change with an invalid new phone on a contact of the Store
C5_Witness ==
    /\ out.op = "main"
    /\ out.exc = "PhoneFormatError"
    /\ out.args # <<>> /\ out.args[1] = CHANGE
    /\ HasKey(book, Name(out.args[2]))

\* C6: the loop ends on a line whose first word is "close" or "exit" in any
\* letter case, and on no other line: after any other line it is back at
\* the prompt, no exception having escaped.
C6_LoopEndsOnlyOnExit ==
    [][ IF line' \in ExitLines THEN pc' = "done" ELSE pc' = "prompt" ]_vars

\* C6's case: a line with an invalid date was read, and the loop is at the
\* prompt again
C6_Witness ==
    /\ out.op = "main"
    /\ out.exc = "DateFormatError"
    /\ pc = "prompt"

ALICE_KEY == <<"A", "l", "i", "c", "e">>

\* C7: every key of the Store is the name of the Record under it, find(n)
\* returns that Record for every n whose trimmed, capitalized form is the
\* key, and find("  alice ") and find("ALICE") return the Record stored
\* under "Alice".
C7_KeyIsNormalizedName ==
    /\ \A i \in 1..Len(book) : book[i].key = book[i].rec.name
    /\ \A i \in 1..Len(book) : \A n \in NameInputs :
           capitalize(strip(n)) = book[i].key => find(book, n) = <<book[i].rec>>
    /\ \A i \in 1..Len(book) :
           book[i].key = ALICE_KEY =>
               /\ find(book, <<" ", " ", "a", "l", "i", "c", "e", " ">>) = <<book[i].rec>>
               /\ find(book, <<"A", "L", "I", "C", "E">>) = <<book[i].rec>>

\* C7's case: find("ALICE") was called on a Store of two Records and
\* returned the one stored under "Alice"
C7_Witness ==
    /\ out.op = "find"
    /\ out.args = << <<"A", "L", "I", "C", "E">> >>
    /\ out.value # None
    /\ HasKey(book, ALICE_KEY)
    /\ Len(book) = 2

\* the date a string YYYY.MM.DD names
ParseYmd(s) ==
    [year |-> ToInt(SubSeq(s, 1, 4)), month |-> ToInt(SubSeq(s, 6, 7)),
     day |-> ToInt(SubSeq(s, 9, 10))]

\* the first day on or after today with the birthday's day and month, for a
\* birthday that falls in every year
NextOccurrence(b, today) ==
    IF b.month > today.month \/ (b.month = today.month /\ b.day >= today.day)
    THEN [year |-> today.year, month |-> b.month, day |-> b.day]
    ELSE [year |-> today.year + 1, month |-> b.month, day |-> b.day]

\* C8: every entry get_upcoming_birthday emits carries the birthday's next
\* occurrence moved by 2 days from a Saturday, by 1 day from a Sunday and
\* not at all otherwise, so no congratulation date is a Saturday or Sunday.
C8_WeekendShift ==
    (out.op = "get_upcoming_birthday" /\ out.exc = "") =>
        \A i \in 1..Len(out.value) :
            LET e == out.value[i]
                occ == NextOccurrence(RecordAt(book, e.name).birthday[1], out.args[1])
                c == ParseYmd(e.congratulation_date)
            IN /\ Len(e.congratulation_date) = 10
               /\ ValidDate(c.year, c.month, c.day)
               /\ toordinal(c) = toordinal(occ) +
                      (IF isoweekday(occ) = 6 THEN 2 ELSE IF isoweekday(occ) = 7 THEN 1 ELSE 0)
               /\ isoweekday(c) \notin {6, 7}

\* C8's case: an entry for a birthday whose next occurrence is Saturday
\* 15 June 2024
C8_Witness ==
    /\ out.op = "get_upcoming_birthday"
    /\ out.exc = ""
    /\ \E i \in 1..Len(out.value) :
           /\ RecordAt(book, out.value[i].name).birthday[1].day = 15
           /\ out.args[1].year = 2024
           /\ out.value[i].congratulation_date
                = <<"2", "0", "2", "4", ".", "0", "6", ".", "1", "7">>

TenAsciiDigits(s) == Len(s) = 10 /\ \A i \in 1..10 : s[i] \in AsciiDigits

\* C9: a Phone is built from a string of exactly 10 ASCII digits and from no
\* other string, so every phone a Record holds after add_phone and edit_phone
\* calls is exactly 10 ASCII digits.
C9_PhonesAreTenAsciiDigits ==
    /\ \A i \in 1..Len(rec.phones) : TenAsciiDigits(rec.phones[i])
    /\ (out.op = "add_phone" /\ ~TenAsciiDigits(out.args[1])) => out.value = FALSE

\* C10: for every today, get_upcoming_birthday completes and emits exactly
\* one entry for each Record whose birthday next falls 0 to 6 days after
\* today, and none for any other Record.
C10_UpcomingCompletes ==
    out.op = "get_upcoming_birthday" =>
        /\ out.exc = ""
        /\ \A k \in 1..Len(book) :
               book[k].rec.birthday # None =>
                   LET occ == NextOccurrence(book[k].rec.birthday[1], out.args[1])
                       days == toordinal(occ) - toordinal(out.args[1])
                   IN Cardinality({i \in 1..Len(out.value) : out.value[i].name = book[k].key})
                        = IF days \in 0..6 THEN 1 ELSE 0

====
